---- MODULE Spec2Model ----
(***************************************************************************)
(* Model of gym-cyber_attack: the CyberAttackEnv engine                    *)
(* (cyber_attack_env.py) and the spaces it is built from                   *)
(* (cyber_attack_spaces.py).                                               *)
(*                                                                         *)
(* Python objects are modelled with a small heap: a belief state is an     *)
(* object, and the engine, the observation space (its template) and the    *)
(* caller hold references to objects.  copy.deepcopy allocates a new       *)
(* object; returning self.current_state returns the engine's own object.   *)
(* numpy's global generator is modelled as an unknown but fixed stream of  *)
(* draws that np.random.seed(1) rewinds to its start.                      *)
(***************************************************************************)
EXTENDS Integers, Sequences, FiniteSets, TLC

\* ------------------------------------------------------------------ bounds
\* largest arguments the constructor is called with, and the largest network
\* (machines times services) they may ask for
MaxNM == 4
MaxNS == 2
MaxCells == 8
\* with a caller that keeps and writes observations: the largest network,
\* and the number of writes
CallerMaxCells == 4
AgentMaxCells == 6
MaxMutations == 1
\* the largest network whose spaces are built without stepping the engine
WideNM == 14

\* --------------------------------------------------------------- constants
UNKNOWN == 0
PRESENT == 1
ABSENT == 2
SCAN == 0
R_SENSITIVE == 9000
R_USER == 5000
COST_EXPLOIT == 10
COST_SCAN == 10

VARIABLES
    nM, nS,               \* the constructor's arguments
    phase,                \* "new" (not yet constructed), "failed", "ready"
    rngStream, rngPos,    \* numpy's global generator: stream after seed(1), position
    network,              \* self.network: address -> [services, value]
    sensitive_machines,   \* self.sensitive_machines: sequence of addresses
    heap,                 \* object id -> belief state (Null when unallocated)
    template,             \* observation_space.initial_observation (a reference)
    cur,                  \* self.current_state (a reference)
    ret,                  \* the observation returned by the last call (a reference)
    held,                 \* a returned observation the caller kept (a reference)
    reward, done,         \* reward and done returned by the last step
    last,                 \* the last call: op, action and the branch step took
    prev,                 \* contents of self.current_state before the last call
    mutations,            \* number of caller mutations of a kept observation
    twin,                 \* a second engine built with the same arguments
    address_space,        \* action_space["target"].space: the sorted addresses
    service_configs,      \* configs of _construct_network: the candidates
    answer,               \* what the last call on the address space returned
    gained,               \* sum of reward + cost over the steps since reset
    agentSteps            \* steps the exploiting agent made since reset

vars == <<nM, nS, phase, rngStream, rngPos, network, sensitive_machines, heap,
          template, cur, ret, held, reward, done, last, prev, mutations, twin,
          address_space, service_configs, answer, gained, agentSteps>>

engineVars == <<phase, network, sensitive_machines, heap, template, cur, ret,
                reward, done, last, prev>>

\* ------------------------------------------------------------------- heap
ObjIds == 0 .. 3
NoRef == -1
Null == << >>

\* smallest object id not in use
Fresh(used) == CHOOSE i \in ObjIds \ used : \A j \in ObjIds \ used : i <= j

\* objects nobody references are collected
Collect(h, used) == [i \in ObjIds |-> IF i \in used THEN h[i] ELSE Null]

Refs(S) == S \ {NoRef}

\* -------------------------------------------------------- address space
AddrLess(a, b) == a[1] < b[1] \/ (a[1] = b[1] /\ a[2] < b[2])

RECURSIVE GenAddresses(_, _, _, _, _)
GenAddresses(n, m, s_id, u_id, addresses) ==
    IF m >= n THEN addresses
    ELSE IF m = 0
         THEN GenAddresses(n, m + 1, s_id, u_id, Append(addresses, <<0, 0>>))
    ELSE IF m % 10 = 1
         THEN GenAddresses(n, m + 1, s_id + 1, u_id, Append(addresses, <<1, s_id>>))
    ELSE GenAddresses(n, m + 1, s_id, u_id + 1, Append(addresses, <<2, u_id>>))

\* variant: the addresses are returned in generation order, unsorted
generate_address_space_Unsorted(n) == GenAddresses(n, 0, 0, 0, << >>)

\* AddressSpace.generate_address_space, past its assertion
generate_address_space(n) ==
    SortSeq(GenAddresses(n, 0, 0, 0, << >>), AddrLess)

SeqRange(s) == {s[i] : i \in 1 .. Len(s)}

\* bisect.bisect_left(a, x) on a[lo:hi], positions counted from 0
RECURSIVE bisect_left(_, _, _, _)
bisect_left(a, x, lo, hi) ==
    IF lo < hi
    THEN LET mid == (lo + hi) \div 2
         IN IF AddrLess(a[mid + 1], x)
            THEN bisect_left(a, x, mid + 1, hi)
            ELSE bisect_left(a, x, lo, mid)
    ELSE lo

\* AddressSpace.contains for a pair x: what it returns, or the error it raises
contains(space, x) ==
    LET i == bisect_left(space, x, 0, Len(space))
    IN IF i >= Len(space)
       THEN [error |-> "IndexError", value |-> FALSE]
       ELSE [error |-> "none", value |-> (space[i + 1] = x)]

\* the pairs contains is asked about
Queries(n) == (-1 .. 3) \X (-1 .. n)

\* variant: the size assertion admits a two-machine network
AssertArgs_AtLeastTwo(n, s) == n >= 2 /\ s > 0

\* the assertions of the spaces' constructors
AssertArgs(n, s) == n > 2 /\ s > 0

\* ---------------------------------------------------- observation space
\* variant: the services array is one entry too long
gen_initial_state_ExtraService(n, s) ==
    LET space == generate_address_space(n)
    IN [m \in SeqRange(space) |->
           [services    |-> [i \in 1 .. s + 1 |-> UNKNOWN],
            compromised |-> FALSE,
            sensitive   |-> IF m[1] = 0 THEN FALSE ELSE m[2] % 10 = 0,
            reachable   |-> m[1] = 0]]

\* variant: the subnet is not looked at when sensitive is set
gen_initial_state_AnySubnet(n, s) ==
    LET space == generate_address_space(n)
    IN [m \in SeqRange(space) |->
           [services    |-> [i \in 1 .. s |-> UNKNOWN],
            compromised |-> FALSE,
            sensitive   |-> m[2] % 10 = 0,
            reachable   |-> m[1] = 0]]

gen_initial_state(n, s) ==
    LET space == generate_address_space(n)
    IN [m \in SeqRange(space) |->
           [services    |-> [i \in 1 .. s |-> UNKNOWN],
            compromised |-> FALSE,
            sensitive   |-> IF m[1] = 0 THEN FALSE ELSE m[2] % 10 = 0,
            reachable   |-> m[1] = 0]]

\* self.space[m].contains(v): services in MultiDiscrete([3] * nS), the three
\* flags in Discrete(2), which holds False/0 and True/1
MachineSpaceContains(s, v) ==
    /\ DOMAIN v = {"services", "compromised", "reachable", "sensitive"}
    /\ DOMAIN v.services = 1 .. s
    /\ \A i \in DOMAIN v.services : v.services[i] \in 0 .. 2
    /\ v.compromised \in BOOLEAN
    /\ v.reachable \in BOOLEAN
    /\ v.sensitive \in BOOLEAN

\* CAObservationSpace.contains for a dict x; a key on which
\* AddressSpace.contains raises makes the call raise
observation_contains(space, s, x) ==
    IF Cardinality(DOMAIN x) # Len(space)
    THEN [error |-> "none", value |-> FALSE]
    ELSE IF \E m \in DOMAIN x : contains(space, m).error # "none"
    THEN [error |-> "IndexError", value |-> FALSE]
    ELSE [error |-> "none",
          value |-> \A m \in DOMAIN x : /\ contains(space, m).value
                                        /\ MachineSpaceContains(s, x[m])]

\* variant: the template itself is handed out, without copy.deepcopy
get_initial_state_NoCopy(h, tmpl, used) == [heap |-> h, ref |-> tmpl]

\* CAObservationSpace.get_initial_state: a deep copy of the template
get_initial_state(h, tmpl, used) ==
    LET n == Fresh(used)
    IN [heap |-> [h EXCEPT ![n] = h[tmpl]], ref |-> n]

\* ------------------------------------------------------------- network
\* variant: the base case lists False before True
RECURSIVE permutations_FalseFirst(_)
permutations_FalseFirst(n) ==
    IF n <= 0 THEN << >>
    ELSE IF n = 1 THEN << <<FALSE>>, <<TRUE>> >>
    ELSE LET sub == permutations_FalseFirst(n - 1)
             RECURSIVE build(_)
             build(i) == IF i > Len(sub) THEN << >>
                         ELSE << <<TRUE>> \o sub[i], <<FALSE>> \o sub[i] >>
                              \o build(i + 1)
         IN build(1)

RECURSIVE permutations(_)
permutations(n) ==
    IF n <= 0 THEN << >>
    ELSE IF n = 1 THEN << <<TRUE>>, <<FALSE>> >>
    ELSE LET sub == permutations(n - 1)
             RECURSIVE build(_)
             build(i) == IF i > Len(sub) THEN << >>
                         ELSE << <<TRUE>> \o sub[i], <<FALSE>> \o sub[i] >>
                              \o build(i + 1)
         IN build(1)

\* permutations(nS)[:-1]
Configs(s) ==
    LET p == permutations(s)
    IN IF Len(p) = 0 THEN p ELSE SubSeq(p, 1, Len(p) - 1)

\* variant: the generator is not reseeded and goes on where it stands
RngSeed_NotReseeded(pos) == pos

\* np.random.seed(1): the generator restarts its stream
RngSeed(pos) == 0

MachineValue(m) ==
    IF m[2] % 10 = 0
    THEN IF m[1] = 1 THEN R_SENSITIVE
         ELSE IF m[1] = 2 THEN R_USER
         ELSE 0
    ELSE 0

\* CyberAttackEnv._construct_network: the i-th machine takes the i-th draw
construct_network(n, s, stream, pos) ==
    LET start   == RngSeed(pos)
        configs == Configs(s)
        space   == generate_address_space(n)
        idx(m)  == CHOOSE i \in 1 .. Len(space) : space[i] = m
    IN [network |-> [m \in SeqRange(space) |->
                        [services |-> configs[stream[start + idx(m)] + 1],
                         value    |-> MachineValue(m)]],
        sensitive_machines |-> SelectSeq(space, LAMBDA m : MachineValue(m) # 0),
        pos |-> start + Len(space)]

\* ---------------------------------------------------------- step logic
ActionCost(action) == IF action.action = SCAN THEN COST_SCAN ELSE COST_EXPLOIT

\* variant: the gate forgets the already-compromised test
Gated_ReachableOnly(cs, target) == ~cs[target].reachable

\* variant: the gate forgets the reachable test
Gated_CompromisedOnly(cs, target) == cs[target].compromised

\* the precondition gate of step
Gated(cs, target) == ~cs[target].reachable \/ cs[target].compromised

\* variant: a scan also collects the machine's value
take_action_ScanGains(net, action) ==
    LET target_services == net[action.target].services
    IN IF action.action = SCAN
       THEN [success |-> TRUE, value |-> net[action.target].value,
             services |-> target_services]
       ELSE IF target_services[action.action]
       THEN [success |-> TRUE, value |-> net[action.target].value,
             services |-> target_services]
       ELSE [success |-> FALSE, value |-> 0, services |-> << >>]

\* variant: an exploit always tests the first service
take_action_FirstService(net, action) ==
    LET target_services == net[action.target].services
    IN IF action.action = SCAN
       THEN [success |-> TRUE, value |-> 0, services |-> target_services]
       ELSE IF target_services[1]
       THEN [success |-> TRUE, value |-> net[action.target].value,
             services |-> target_services]
       ELSE [success |-> FALSE, value |-> 0, services |-> << >>]

\* CyberAttackEnv._take_action
take_action(net, action) ==
    LET target_services == net[action.target].services
    IN IF action.action = SCAN
       THEN [success |-> TRUE, value |-> 0, services |-> target_services]
       ELSE IF target_services[action.action]
       THEN [success |-> TRUE, value |-> net[action.target].value,
             services |-> target_services]
       ELSE [success |-> FALSE, value |-> 0, services |-> << >>]

\* variant: only the machines of subnets 1 and 2 are marked reachable
update_reachable_OtherSubnets(cs, target) ==
    IF target[1] = 0
    THEN [m \in DOMAIN cs |-> [cs[m] EXCEPT !.reachable = (m[1] # 0)]]
    ELSE cs

\* variant: the subnet test is on the wrong subnet
update_reachable_WrongSubnet(cs, target) ==
    IF target[1] = 1
    THEN [m \in DOMAIN cs |-> [cs[m] EXCEPT !.reachable = TRUE]]
    ELSE cs

\* CyberAttackEnv._update_reachable
update_reachable(cs, target) ==
    IF target[1] = 0
    THEN [m \in DOMAIN cs |-> [cs[m] EXCEPT !.reachable = TRUE]]
    ELSE cs

\* variant: a successful scan compromises the target too
update_state_ScanCompromises(cs, action, success, services) ==
    LET target == action.target
    IN IF ~success
       THEN [cs EXCEPT ![target].services[action.action] = ABSENT]
       ELSE LET known == [cs EXCEPT ![target].services =
                             [i \in DOMAIN cs[target].services |->
                                 IF i \in DOMAIN services
                                 THEN (IF services[i] THEN PRESENT ELSE ABSENT)
                                 ELSE cs[target].services[i]]]
            IN IF TRUE
               THEN update_reachable([known EXCEPT ![target].compromised = TRUE],
                                     target)
               ELSE known

\* variant: a failed exploit marks every service of the target absent
update_state_FailMarksAll(cs, action, success, services) ==
    LET target == action.target
    IN IF ~success
       THEN [cs EXCEPT ![target].services = [i \in DOMAIN cs[target].services |-> ABSENT]]
       ELSE LET known == [cs EXCEPT ![target].services =
                             [i \in DOMAIN cs[target].services |->
                                 IF i \in DOMAIN services
                                 THEN (IF services[i] THEN PRESENT ELSE ABSENT)
                                 ELSE cs[target].services[i]]]
            IN IF action.action # SCAN
               THEN update_reachable([known EXCEPT ![target].compromised = TRUE],
                                     target)
               ELSE known

\* variant: Present and Absent are swapped when services are revealed
update_state_Swapped(cs, action, success, services) ==
    LET target == action.target
    IN IF ~success
       THEN [cs EXCEPT ![target].services[action.action] = ABSENT]
       ELSE LET known == [cs EXCEPT ![target].services =
                             [i \in DOMAIN cs[target].services |->
                                 IF i \in DOMAIN services
                                 THEN (IF services[i] THEN ABSENT ELSE PRESENT)
                                 ELSE cs[target].services[i]]]
            IN IF action.action # SCAN
               THEN update_reachable([known EXCEPT ![target].compromised = TRUE],
                                     target)
               ELSE known

\* CyberAttackEnv._update_state
update_state(cs, action, success, services) ==
    LET target == action.target
    IN IF ~success
       THEN [cs EXCEPT ![target].services[action.action] = ABSENT]
       ELSE LET known == [cs EXCEPT ![target].services =
                             [i \in DOMAIN cs[target].services |->
                                 IF i \in DOMAIN services
                                 THEN (IF services[i] THEN PRESENT ELSE ABSENT)
                                 ELSE cs[target].services[i]]]
            IN IF action.action # SCAN
               THEN update_reachable([known EXCEPT ![target].compromised = TRUE],
                                     target)
               ELSE known

\* variant: the loop returns on the first compromised goal machine
RECURSIVE AnyGoalFrom(_, _, _)
AnyGoalFrom(sens, cs, i) ==
    IF i > Len(sens) THEN FALSE
    ELSE IF cs[sens[i]].compromised THEN TRUE
    ELSE AnyGoalFrom(sens, cs, i + 1)

is_goal_Any(sens, cs) == AnyGoalFrom(sens, cs, 1)

\* CyberAttackEnv.is_goal
RECURSIVE GoalFrom(_, _, _)
GoalFrom(sens, cs, i) ==
    IF i > Len(sens) THEN TRUE
    ELSE IF ~cs[sens[i]].compromised THEN FALSE
    ELSE GoalFrom(sens, cs, i + 1)

is_goal(sens, cs) == GoalFrom(sens, cs, 1)

\* variant: the goal test runs before the belief is updated
step_StaleGoal(net, sens, cs, action) ==
    LET action_cost == ActionCost(action)
    IN IF Gated(cs, action.target)
       THEN [state |-> cs, reward |-> 0 - action_cost, done |-> FALSE,
             gate |-> TRUE, success |-> FALSE, copied |-> FALSE]
       ELSE LET r  == take_action(net, action)
                ns == update_state(cs, action, r.success, r.services)
            IN [state |-> ns, reward |-> r.value - action_cost,
                done |-> is_goal(sens, cs),
                gate |-> FALSE, success |-> r.success, copied |-> TRUE]

\* CyberAttackEnv.step on belief cs: the new belief, what is returned and
\* whether the returned observation is the engine's own object
step(net, sens, cs, action) ==
    LET action_cost == ActionCost(action)
    IN IF Gated(cs, action.target)
       THEN [state |-> cs, reward |-> 0 - action_cost, done |-> FALSE,
             gate |-> TRUE, success |-> FALSE, copied |-> FALSE]
       ELSE LET r  == take_action(net, action)
                ns == update_state(cs, action, r.success, r.services)
            IN [state |-> ns, reward |-> r.value - action_cost,
                done |-> is_goal(sens, ns),
                gate |-> FALSE, success |-> r.success, copied |-> TRUE]

Actions == [target : DOMAIN network, action : 0 .. nS]

NoAction == [target |-> <<-1, -1>>, action |-> -1]

Call(op, action, gate, success) ==
    [op |-> op, target |-> action.target, kind |-> action.action,
     gate |-> gate, success |-> success]

\* ---------------------------------------------------------------- rng
\* number of candidate configurations np.random.choice draws from
NumConfigs(s) == Len(Configs(s))

Max(a, b) == IF a > b THEN a ELSE b

\* The stream is revealed draw by draw: a draw past the revealed prefix takes
\* any value, a draw inside it repeats the value drawn before.
Extensions(stream, pos) ==
    LET need == IF AssertArgs(nM, nS)
                THEN Max(0, RngSeed(pos) + nM - Len(stream))
                ELSE 0
    IN [1 .. need -> 0 .. NumConfigs(nS) - 1]

\* --------------------------------------------------------------- twin
NoTwin == [phase |-> "new", network |-> << >>, sensitive_machines |-> << >>,
           state |-> Null, obs |-> Null, reward |-> 0, done |-> FALSE]

NoAnswer == [error |-> "none", value |-> FALSE]

\* ------------------------------------------------------------- initial
\* nothing is constructed yet
Unbuilt ==
    /\ phase = "new"
    /\ rngStream = << >>
    /\ rngPos = 0
    /\ network = << >>
    /\ sensitive_machines = << >>
    /\ heap = [i \in ObjIds |-> Null]
    /\ template = NoRef
    /\ cur = NoRef
    /\ ret = NoRef
    /\ held = NoRef
    /\ reward = 0
    /\ done = FALSE
    /\ last = Call("none", NoAction, FALSE, FALSE)
    /\ prev = Null
    /\ mutations = 0
    /\ twin = NoTwin
    /\ address_space = << >>
    /\ service_configs = << >>
    /\ answer = NoAnswer
    /\ gained = 0
    /\ agentSteps = 0

Init ==
    /\ nM \in 0 .. MaxNM
    /\ nS \in 0 .. MaxNS
    /\ nM * nS <= MaxCells
    /\ Unbuilt

\* ------------------------------------------------------------- actions
\* position of the generator after a constructor call
AfterConstruct(stream, pos) ==
    IF AssertArgs(nM, nS) THEN construct_network(nM, nS, stream, pos).pos ELSE pos

\* CyberAttackEnv.__init__ on the first engine, drawing from stream
EngineConstruct(stream) ==
    /\ phase = "new"
    /\ gained' = 0
    /\ IF ~AssertArgs(nM, nS)
       THEN /\ phase' = "failed"
            /\ last' = Call("construct", NoAction, FALSE, FALSE)
            /\ UNCHANGED <<network, sensitive_machines, heap, template, cur, ret,
                           reward, done, prev, address_space, service_configs>>
       ELSE LET t   == Fresh({})
                h0  == [heap EXCEPT ![t] = gen_initial_state(nM, nS)]
                net == construct_network(nM, nS, stream, rngPos)
                ini == get_initial_state(h0, t, {t})
            IN /\ phase' = "ready"
               /\ template' = t
               /\ network' = net.network
               /\ sensitive_machines' = net.sensitive_machines
               /\ address_space' = generate_address_space(nM)
               /\ service_configs' = Configs(nS)
               /\ cur' = ini.ref
               /\ heap' = Collect(ini.heap, {t, ini.ref})
               /\ last' = Call("construct", NoAction, FALSE, FALSE)
               /\ UNCHANGED <<ret, reward, done, prev>>

\* CyberAttackEnv.reset
EngineReset ==
    /\ phase = "ready"
    /\ LET keep == Refs({template, held})
           ini  == get_initial_state(heap, template, keep)
       IN /\ cur' = ini.ref
          /\ ret' = ini.ref
          /\ heap' = Collect(ini.heap, keep \cup {ini.ref})
          /\ prev' = heap[cur]
    /\ last' = Call("reset", NoAction, FALSE, FALSE)
    /\ gained' = 0
    /\ UNCHANGED <<phase, network, sensitive_machines, template, reward, done,
                   address_space, service_configs>>

\* CyberAttackEnv.step
EngineStep(action) ==
    /\ phase = "ready"
    /\ \E r \in {step(network, sensitive_machines, heap[cur], action)} :
         LET keep == Refs({template, cur, held})
             h1   == [heap EXCEPT ![cur] = r.state]
             n    == IF r.copied THEN Fresh(keep) ELSE cur
         IN /\ heap' = Collect([h1 EXCEPT ![n] = r.state], keep \cup {n})
            /\ ret' = n
            /\ reward' = r.reward
            /\ done' = r.done
            /\ last' = Call("step", action, r.gate, r.success)
            /\ prev' = heap[cur]
            /\ gained' = gained + r.reward + ActionCost(action)
    /\ UNCHANGED <<phase, network, sensitive_machines, template, cur,
                   address_space, service_configs>>

Construct ==
    \E ext \in Extensions(rngStream, rngPos) :
        /\ EngineConstruct(rngStream \o ext)
        /\ rngStream' = rngStream \o ext
        /\ rngPos' = AfterConstruct(rngStream \o ext, rngPos)
        /\ UNCHANGED <<nM, nS, held, mutations, twin, answer, agentSteps>>

Reset ==
    /\ EngineReset
    /\ answer' = NoAnswer
    /\ agentSteps' = 0
    /\ UNCHANGED <<nM, nS, rngStream, rngPos, held, mutations, twin>>

\* step(action) for an action of the set A
StepIn(A) ==
    \E action \in A :
        /\ EngineStep(action)
        /\ answer' = NoAnswer
        /\ UNCHANGED <<nM, nS, rngStream, rngPos, held, mutations, twin,
                       agentSteps>>

Step == StepIn(Actions)

Next == Construct \/ Reset \/ Step

Spec == Init /\ [][Next]_vars

\* ------------------------------------------------------------- caller
\* the caller keeps the observation the last call returned
Retain ==
    /\ phase = "ready"
    /\ ret # NoRef
    /\ held # ret
    /\ held' = ret
    /\ heap' = Collect(heap, Refs({template, cur, ret}))
    /\ last' = Call("retain", NoAction, FALSE, FALSE)
    /\ UNCHANGED <<nM, nS, phase, rngStream, rngPos, network, sensitive_machines,
                   template, cur, ret, reward, done, prev, mutations, twin,
                   address_space, service_configs, answer, gained, agentSteps>>

\* the caller writes a flag of one machine in the observation it kept
CallerMutate ==
    /\ phase = "ready"
    /\ held # NoRef
    /\ mutations < MaxMutations
    /\ \E m \in DOMAIN heap[held] :
          \/ heap' = [heap EXCEPT ![held][m].compromised = ~@]
          \/ heap' = [heap EXCEPT ![held][m].reachable = ~@]
    /\ mutations' = mutations + 1
    /\ last' = Call("mutate", NoAction, FALSE, FALSE)
    /\ prev' = heap[cur]
    /\ UNCHANGED <<nM, nS, phase, rngStream, rngPos, network, sensitive_machines,
                   template, cur, ret, held, reward, done, twin,
                   address_space, service_configs, answer, gained, agentSteps>>

NextCaller == Construct \/ Reset \/ Step \/ Retain \/ CallerMutate

InitCaller == Init /\ nM * nS <= CallerMaxCells

SpecCaller == InitCaller /\ [][NextCaller]_vars

\* ----------------------------------------------- two engines, same calls
\* CyberAttackEnv(nM, nS) twice, one engine after the other
TwinConstruct ==
    \E ext1 \in Extensions(rngStream, rngPos) :
        LET s1 == rngStream \o ext1
            p1 == AfterConstruct(s1, rngPos)
        IN \E ext2 \in Extensions(s1, p1) :
              LET s2 == s1 \o ext2
              IN /\ EngineConstruct(s1)
                 /\ rngStream' = s2
                 /\ rngPos' = AfterConstruct(s2, p1)
                 /\ twin' = IF AssertArgs(nM, nS)
                            THEN LET net == construct_network(nM, nS, s2, p1)
                                 IN [NoTwin EXCEPT
                                       !.phase = "ready",
                                       !.network = net.network,
                                       !.sensitive_machines = net.sensitive_machines,
                                       !.state = gen_initial_state(nM, nS)]
                            ELSE [NoTwin EXCEPT !.phase = "failed"]
                 /\ UNCHANGED <<nM, nS, held, mutations, answer, agentSteps>>

\* reset() on both engines
TwinReset ==
    /\ EngineReset
    /\ twin' = [twin EXCEPT !.state = gen_initial_state(nM, nS),
                            !.obs = gen_initial_state(nM, nS)]
    /\ UNCHANGED <<nM, nS, rngStream, rngPos, held, mutations, answer,
                   agentSteps>>

\* step(action) on both engines
TwinStep ==
    \E action \in Actions :
        /\ EngineStep(action)
        /\ \E r \in {step(twin.network, twin.sensitive_machines, twin.state, action)} :
              twin' = [twin EXCEPT !.state = r.state, !.obs = r.state,
                                   !.reward = r.reward, !.done = r.done]
        /\ UNCHANGED <<nM, nS, rngStream, rngPos, held, mutations, answer,
                       agentSteps>>

NextTwin == TwinConstruct \/ TwinReset \/ TwinStep

SpecTwin == Init /\ [][NextTwin]_vars

\* ------------------------------------------- spaces of wider networks
\* action_space["target"].contains(x); it reads only the address list, so it
\* is asked before the first reset or step
Contains ==
    /\ phase = "ready"
    /\ ret = NoRef
    /\ \E x \in Queries(nM) :
          /\ last' = Call("contains", [target |-> x, action |-> -1], FALSE, FALSE)
          /\ answer' = contains(address_space, x)
    /\ UNCHANGED <<nM, nS, phase, rngStream, rngPos, network, sensitive_machines,
                   heap, template, cur, ret, held, reward, done, prev, mutations,
                   twin, address_space, service_configs, gained, agentSteps>>

\* x = action_space["target"].sample() followed by contains(x)
Sample ==
    /\ phase = "ready"
    /\ ret = NoRef
    /\ \E i \in 0 .. nM - 1 :
          /\ last' = Call("sample", [target |-> address_space[i + 1], action |-> -1],
                          FALSE, FALSE)
          /\ answer' = contains(address_space, address_space[i + 1])
    /\ UNCHANGED <<nM, nS, phase, rngStream, rngPos, network, sensitive_machines,
                   heap, template, cur, ret, held, reward, done, prev, mutations,
                   twin, address_space, service_configs, gained, agentSteps>>

\* step: every action on the small networks; on the wider ones the actions
\* on the entry machine and on the machines whose id is a multiple of 10
WideActions ==
    IF nM <= MaxNM /\ nM * nS <= MaxCells
    THEN Actions
    ELSE {a \in Actions : a.target[2] % 10 = 0}

WideStep == StepIn(WideActions)

NextWide == Construct \/ Reset \/ WideStep \/ Contains \/ Sample

\* one-service networks of up to WideNM machines besides the small ones
InitWide ==
    /\ nM \in 0 .. WideNM
    /\ nS \in 0 .. MaxNS
    /\ (nM <= MaxNM /\ nM * nS <= MaxCells) \/ nS = 1
    /\ Unbuilt

SpecWide == InitWide /\ [][NextWide]_vars

\* ------------------------------------------------- the exploiting agent
\* the exploits of a reachable, not yet compromised machine at a service
\* index that the belief b does not hold to be absent
AgentActions(b) ==
    {a \in Actions : /\ a.action # SCAN
                     /\ b[a.target].reachable
                     /\ ~b[a.target].compromised
                     /\ b[a.target].services[a.action] # ABSENT}

\* step(action) for an action the agent picks
AgentStep ==
    /\ phase = "ready"
    /\ \E action \in AgentActions(heap[cur]) :
          /\ EngineStep(action)
          /\ answer' = NoAnswer
          /\ agentSteps' = agentSteps + 1
          /\ UNCHANGED <<nM, nS, rngStream, rngPos, held, mutations, twin>>

\* step(action) for any other action: a scan, a blocked target, an exploit
\* of a service already known to be absent
OtherStep ==
    /\ phase = "ready"
    /\ StepIn(Actions \ AgentActions(heap[cur]))

NextAgent == Construct \/ Reset \/ AgentStep \/ OtherStep

InitAgent == Init /\ nM * nS <= AgentMaxCells

\* the agent keeps acting while it has an action
SpecAgent == InitAgent /\ [][NextAgent]_vars /\ WF_vars(AgentStep)

\* ====================================================================
\* Properties
\* ====================================================================
Belief == heap[cur]

Returned == heap[ret]

Stepped == phase = "ready" /\ last.op = "step"

\* the target of the last step was unreachable or already compromised
WasBlocked == ~prev[last.target].reachable \/ prev[last.target].compromised

\* the last step was an exploit of a service the target really runs,
\* on a reachable and not yet compromised target
WasHit ==
    /\ ~WasBlocked
    /\ last.kind > 0
    /\ network[last.target].services[last.kind]

GoalSet == SeqRange(sensitive_machines)

\* C1: a step on an unreachable or already compromised target leaves the
\* belief state as it was and returns -COST_SCAN for a scan, -COST_EXPLOIT
\* for an exploit, and done = false.
C1_BlockedStepChangesNothing ==
    (Stepped /\ WasBlocked) =>
        /\ Belief = prev
        /\ reward = (IF last.kind = 0 THEN 0 - COST_SCAN ELSE 0 - COST_EXPLOIT)
        /\ reward = -10
        /\ done = FALSE

C1_Witness ==
    /\ Stepped
    /\ prev[last.target].compromised
    /\ last.kind > 0
    /\ network[last.target].value > 0
    /\ network[last.target].services[last.kind]

\* the initial belief as the specification describes it
InitialBelief ==
    [m \in DOMAIN network |->
        [services    |-> [i \in 1 .. nS |-> UNKNOWN],
         compromised |-> FALSE,
         reachable   |-> (m[1] = 0),
         sensitive   |-> (m[1] # 0 /\ m[2] % 10 = 0)]]

\* C2: reset() leaves the belief state, and returns a value, equal to the
\* initial template, whatever steps and resets came before; no step changes
\* the template.
C2_ResetRestoresTemplate ==
    (phase = "ready") =>
        /\ heap[template] = InitialBelief
        /\ (last.op = "reset" => Belief = InitialBelief /\ Returned = InitialBelief)

C2_Witness ==
    /\ phase = "ready"
    /\ last.op = "reset"
    /\ prev # InitialBelief
    /\ \E m \in DOMAIN prev : prev[m].compromised /\ m[1] # 0

\* C3: a step on a reachable, not yet compromised target returns
\* gainedValue - cost, gainedValue being the target's value for an exploit of
\* a present service and 0 otherwise; so a successful exploit of a subnet-1
\* goal machine returns 8990, of a subnet-2 goal machine 4990, and every
\* other step -10.
C3_RewardIsValueMinusCost ==
    Stepped =>
        LET t    == last.target
            cost == IF last.kind = 0 THEN COST_SCAN ELSE COST_EXPLOIT
            goal == t[2] % 10 = 0 /\ t[1] \in {1, 2}
        IN /\ ~WasBlocked =>
                 reward = (IF WasHit THEN network[t].value ELSE 0) - cost
           /\ (WasHit /\ goal /\ t[1] = 1) => reward = 8990
           /\ (WasHit /\ goal /\ t[1] = 2) => reward = 4990
           /\ ~(WasHit /\ goal) => reward = -10

C3_Witness ==
    /\ Stepped
    /\ nM = 4
    /\ nS = 1
    /\ last.target = <<1, 0>>
    /\ last.kind = 1
    /\ reward = 8990
    /\ prev[<<0, 0>>].compromised
    /\ ~prev[<<2, 0>>].compromised

\* C4: a successful exploit of the subnet-0 machine makes every machine
\* reachable in that step; every other step changes no machine's reachable
\* field.
C4_ReachabilityPropagation ==
    Stepped =>
        IF WasHit /\ last.target[1] = 0
        THEN \A m \in DOMAIN Belief : Belief[m].reachable
        ELSE \A m \in DOMAIN Belief : Belief[m].reachable = prev[m].reachable

C4_Witness ==
    /\ Stepped
    /\ WasHit
    /\ last.target = <<0, 0>>
    /\ \A m \in DOMAIN prev : m # <<0, 0>> => ~prev[m].reachable
    /\ \A m \in DOMAIN Belief : Belief[m].reachable

\* C5: as long as some goal machine is not compromised, a step returns
\* done = true exactly when it is the successful exploit that compromises the
\* last goal machine still missing, in whatever order the goal machines fall.
C5_DoneOnLastGoalMachine ==
    (Stepped /\ \E g \in GoalSet : ~prev[g].compromised) =>
        (done <=> /\ WasHit
                  /\ last.target \in GoalSet
                  /\ \A g \in GoalSet \ {last.target} : prev[g].compromised)

C5_Witness ==
    /\ Stepped
    /\ nM = 4
    /\ nS = 1
    /\ done
    /\ last.target = <<1, 0>>
    /\ ~prev[<<1, 0>>].compromised
    /\ prev[<<2, 0>>].compromised

\* C6 as stated: for every step, the returned done flag is true iff every
\* address of the goal set is compromised after the step.
C6_DoneEqualsGoal ==
    Stepped => (done <=> \A g \in GoalSet : Belief[g].compromised)

\* C6 as amended: for every step whose target is reachable and not yet
\* compromised, done is true iff every goal machine is compromised after the
\* step; a step on an unreachable or already compromised target returns
\* done = false.
C6_DoneEqualsGoalUnlessBlocked ==
    Stepped =>
        IF WasBlocked
        THEN done = FALSE
        ELSE (done <=> \A g \in GoalSet : Belief[g].compromised)

C6_Witness ==
    /\ Stepped
    /\ ~WasBlocked
    /\ last.kind = SCAN
    /\ done
    /\ last.target \notin GoalSet

\* C9: no step changes a machine's reachable or compromised flag from true
\* to false.
C9_FlagsMonotone ==
    Stepped =>
        \A m \in DOMAIN Belief :
            /\ prev[m].reachable => Belief[m].reachable
            /\ prev[m].compromised => Belief[m].compromised

C9_Witness ==
    /\ Stepped
    /\ WasHit
    /\ \E m \in DOMAIN prev : m # last.target /\ prev[m].compromised /\ m[1] # 0
    /\ Belief[last.target].compromised

\* C10: construction with nM <= 2 or nS <= 0 fails and leaves no network and
\* no belief state; construction with nM > 2 and nS > 0 succeeds.
C10_ConstructionChecksArguments ==
    (phase # "new") =>
        /\ (phase = "failed") <=> (nM <= 2 \/ nS <= 0)
        /\ (phase = "ready") <=> (nM > 2 /\ nS > 0)
        /\ (phase = "failed") =>
              /\ network = << >>
              /\ sensitive_machines = << >>
              /\ cur = NoRef /\ template = NoRef /\ ret = NoRef
              /\ \A i \in ObjIds : heap[i] = Null
        /\ (phase = "ready") =>
              /\ DOMAIN network = SeqRange(generate_address_space(nM))
              /\ DOMAIN Belief = DOMAIN network

C10_Witness ==
    /\ phase = "failed"
    /\ nM = 2
    /\ nS > 0

\* C7: a returned observation is an independent copy: no later reset or step
\* changes an observation the caller kept, and no write of the caller to a
\* kept observation changes the engine's belief state.
C7_ReturnedSnapshotsIndependent ==
    [][ /\ (held # NoRef /\ last'.op \in {"reset", "step"}) =>
               heap'[held] = heap[held]
        /\ (last'.op = "mutate") => heap'[cur'] = heap[cur] ]_vars

\* C8: two engines built with the same arguments have the same network and
\* goal set, and return the same observation, reward and done flag for the
\* same calls.
C8_TwinEnginesAgree ==
    /\ twin.phase = phase
    /\ (phase = "ready") =>
          /\ twin.network = network
          /\ twin.sensitive_machines = sensitive_machines
          /\ twin.state = Belief
          /\ (last.op \in {"reset", "step"}) => twin.obs = Returned
          /\ (last.op = "step") => (twin.reward = reward /\ twin.done = done)

C8_Witness ==
    /\ Stepped
    /\ twin.phase = "ready"
    /\ \E m \in DOMAIN network : \E i \in 1 .. nS : ~network[m].services[i]
    /\ last.target = <<1, 0>>
    /\ reward = 8990
    /\ twin.reward = 8990

\* C11 as stated: contains(x) returns a boolean that is true iff x is one of
\* the nM generated addresses, and false without failing for every other
\* pair; every sampled address is contained.
C11_ContainsIsMembership ==
    (phase = "ready" /\ last.op \in {"contains", "sample"}) =>
        /\ answer.error = "none"
        /\ answer.value <=> (last.target \in SeqRange(address_space))

\* C12: in every state of a constructed engine the belief state is a valid
\* observation: its addresses are the network's and the generated address
\* space's, every services sequence has length nS with entries Unknown,
\* Present or Absent, and the three flags are 0/1 values.
C12_BeliefIsValidObservation ==
    (phase = "ready") =>
        /\ DOMAIN Belief = DOMAIN network
        /\ DOMAIN Belief = SeqRange(address_space)
        /\ Cardinality(DOMAIN Belief) = nM
        /\ \A m \in DOMAIN Belief :
              /\ DOMAIN Belief[m].services = 1 .. nS
              /\ \A i \in 1 .. nS :
                    Belief[m].services[i] \in {UNKNOWN, PRESENT, ABSENT}
              /\ Belief[m].compromised \in BOOLEAN
              /\ Belief[m].reachable \in BOOLEAN
              /\ Belief[m].sensitive \in BOOLEAN
        /\ observation_contains(address_space, nS, Belief)
               = [error |-> "none", value |-> TRUE]

C12_Witness ==
    /\ Stepped
    /\ ~WasBlocked
    /\ last.kind > 0
    /\ ~network[last.target].services[last.kind]
    /\ Belief[last.target].services[last.kind] = ABSENT
    /\ \E m \in DOMAIN Belief : Belief[m].compromised

\* C13: an exploit of service k on a reachable, not yet compromised target
\* leaves the target compromised iff the target really runs service k, and
\* changes no other machine's compromised flag.
C13_ExploitSucceedsIffServicePresent ==
    (Stepped /\ ~WasBlocked /\ last.kind > 0) =>
        /\ Belief[last.target].compromised
              <=> network[last.target].services[last.kind]
        /\ \A m \in DOMAIN Belief \ {last.target} :
              Belief[m].compromised = prev[m].compromised

C13_Witness ==
    /\ Stepped
    /\ ~WasBlocked
    /\ last.kind = 2
    /\ network[last.target].services[1]
    /\ ~network[last.target].services[2]
    /\ ~Belief[last.target].compromised
    /\ \E m \in DOMAIN prev : prev[m].compromised

\* C14: a scan of a reachable, not yet compromised target sets every service
\* belief of the target to the true state of the service, and leaves the
\* compromised and reachable flags of every machine and the service beliefs of
\* every other machine as they were.
C14_ScanRevealsOnlyServices ==
    (Stepped /\ ~WasBlocked /\ last.kind = SCAN) =>
        /\ \A i \in 1 .. nS :
              Belief[last.target].services[i] =
                  (IF network[last.target].services[i] THEN PRESENT ELSE ABSENT)
        /\ \A m \in DOMAIN Belief :
              /\ Belief[m].compromised = prev[m].compromised
              /\ Belief[m].reachable = prev[m].reachable
        /\ \A m \in DOMAIN Belief \ {last.target} :
              Belief[m].services = prev[m].services

C14_Witness ==
    /\ Stepped
    /\ ~WasBlocked
    /\ last.kind = SCAN
    /\ \A i \in 1 .. nS : prev[last.target].services[i] = UNKNOWN
    /\ \E i \in 1 .. nS : Belief[last.target].services[i] = ABSENT
    /\ \E i \in 1 .. nS : Belief[last.target].services[i] = PRESENT
    /\ ~Belief[last.target].compromised

\* C15: a failed exploit of service k on a reachable, not yet compromised
\* target sets the target's belief of service k to Absent and changes nothing
\* else in the belief state.
C15_FailedExploitMarksOneService ==
    (Stepped /\ ~WasBlocked /\ last.kind > 0
             /\ ~network[last.target].services[last.kind]) =>
        /\ Belief[last.target].services[last.kind] = ABSENT
        /\ \A i \in 1 .. nS :
              i # last.kind =>
                  Belief[last.target].services[i] = prev[last.target].services[i]
        /\ \A m \in DOMAIN Belief :
              /\ Belief[m].compromised = prev[m].compromised
              /\ Belief[m].reachable = prev[m].reachable
              /\ Belief[m].sensitive = prev[m].sensitive
              /\ m # last.target => Belief[m] = prev[m]

C15_Witness ==
    /\ Stepped
    /\ ~WasBlocked
    /\ last.kind > 0
    /\ ~network[last.target].services[last.kind]
    /\ prev[last.target].services[last.kind] = UNKNOWN
    /\ \E i \in 1 .. nS : i # last.kind /\ Belief[last.target].services[i] = UNKNOWN

\* C19: every compromised machine is reachable, and a machine outside subnet 0
\* is reachable iff (0,0) is compromised; so a machine of subnet 1 or 2 is
\* compromised only after (0,0), when every machine is reachable.
C19_ReachabilityFollowsEntryMachine ==
    (phase = "ready") =>
        /\ \A m \in DOMAIN Belief : Belief[m].compromised => Belief[m].reachable
        /\ \A m \in DOMAIN Belief :
              m[1] # 0 => (Belief[m].reachable <=> Belief[<<0, 0>>].compromised)
        /\ \A m \in DOMAIN Belief :
              (m[1] # 0 /\ Belief[m].compromised) =>
                  /\ Belief[<<0, 0>>].compromised
                  /\ \A o \in DOMAIN Belief : Belief[o].reachable

C19_Witness ==
    /\ Stepped
    /\ WasHit
    /\ last.target[1] # 0
    /\ Belief[last.target].compromised
    /\ \E m \in DOMAIN Belief : m[1] # 0 /\ ~Belief[m].compromised

\* C20: the belief never contradicts the network: Present is believed only of
\* a service that is present, Absent only of one that is absent; a step never
\* changes a known service belief, and a reset makes every belief Unknown.
C20_BeliefIsSound ==
    (phase = "ready") =>
        /\ \A m \in DOMAIN Belief : \A i \in 1 .. nS :
              /\ Belief[m].services[i] = PRESENT => network[m].services[i]
              /\ Belief[m].services[i] = ABSENT => ~network[m].services[i]
        /\ Stepped =>
              \A m \in DOMAIN Belief : \A i \in 1 .. nS :
                  prev[m].services[i] # UNKNOWN =>
                      Belief[m].services[i] = prev[m].services[i]
        /\ (last.op = "reset") =>
              \A m \in DOMAIN Belief : \A i \in 1 .. nS :
                  Belief[m].services[i] = UNKNOWN

C20_Witness ==
    /\ Stepped
    /\ ~WasBlocked
    /\ last.kind = SCAN
    /\ \E i \in 1 .. nS : prev[last.target].services[i] = ABSENT
    /\ \E i \in 1 .. nS : /\ prev[last.target].services[i] = UNKNOWN
                          /\ Belief[last.target].services[i] = PRESENT

\* number of machine indices in 1 .. n-1 that are congruent to 1 modulo 10
SubnetOneCount(n) == Cardinality({i \in 1 .. n - 1 : i % 10 = 1})

IdsOfSubnet(space, k) == {space[i][2] : i \in {j \in 1 .. Len(space) : space[j][1] = k}}

\* C16: generate_address_space(nM) returns nM pairwise distinct addresses in
\* increasing (subnet, id) order: (0,0) alone in subnet 0, one subnet-1
\* address per index congruent to 1 modulo 10, the others in subnet 2, and in
\* subnets 1 and 2 the ids 0 .. count-1.
C16_AddressSpaceShape ==
    (phase = "ready") =>
        LET space == address_space
            ones  == SubnetOneCount(nM)
        IN /\ Len(space) = nM
           /\ \A i, j \in 1 .. Len(space) : i < j => AddrLess(space[i], space[j])
           /\ Cardinality(SeqRange(space)) = nM
           /\ \A i \in 1 .. Len(space) : space[i][1] \in {0, 1, 2}
           /\ {a \in SeqRange(space) : a[1] = 0} = {<<0, 0>>}
           /\ IdsOfSubnet(space, 1) = 0 .. ones - 1
           /\ Cardinality({a \in SeqRange(space) : a[1] = 1}) = ones
           /\ IdsOfSubnet(space, 2) = 0 .. (nM - 1 - ones) - 1
           /\ Cardinality({a \in SeqRange(space) : a[1] = 2}) = nM - 1 - ones

C16_Witness ==
    /\ phase = "ready"
    /\ nM >= 12
    /\ address_space[2] = <<1, 0>>
    /\ address_space[3] = <<1, 1>>
    /\ address_space[4] = <<2, 0>>

AllFalse(v) == \A i \in DOMAIN v : ~v[i]

\* C17: permutations(nS)[:-1] holds every boolean vector of length nS once,
\* except the all-false vector, which it does not hold: 2^nS - 1 entries; so
\* every machine of the network runs at least one service.
C17_ConfigsExcludeAllFalse ==
    (phase = "ready") =>
        /\ Len(service_configs) = 2 ^ nS - 1
        /\ \A v \in [1 .. nS -> BOOLEAN] :
              Cardinality({i \in 1 .. Len(service_configs) :
                              \A k \in 1 .. nS : service_configs[i][k] = v[k]})
                  = (IF AllFalse(v) THEN 0 ELSE 1)
        /\ \A i \in 1 .. Len(service_configs) : Len(service_configs[i]) = nS
        /\ \A m \in DOMAIN network : \E k \in 1 .. nS : network[m].services[k]

C17_Witness ==
    /\ phase = "ready"
    /\ nS = 2
    /\ Len(service_configs) = 3
    /\ \E m \in DOMAIN network :
          ~network[m].services[1] /\ network[m].services[2]

\* C18: for every address the belief's sensitive flag, membership of the
\* goal set and a nonzero network value agree; the value is 9000 in subnet 1
\* and 5000 in subnet 2 where the id is a multiple of 10; no step changes a
\* sensitive flag.
C18_SensitiveDesignationsAgree ==
    (phase = "ready") =>
        /\ \A m \in DOMAIN Belief :
              /\ Belief[m].sensitive <=> (m \in GoalSet)
              /\ (m \in GoalSet) <=> (network[m].value # 0)
              /\ network[m].value =
                    (IF m[2] % 10 = 0 /\ m[1] = 1 THEN 9000
                     ELSE IF m[2] % 10 = 0 /\ m[1] = 2 THEN 5000
                     ELSE 0)
        /\ Stepped =>
              \A m \in DOMAIN Belief : Belief[m].sensitive = prev[m].sensitive

C18_Witness ==
    /\ Stepped
    /\ nM = 14
    /\ last.target = <<2, 10>>
    /\ WasHit
    /\ reward = 4990
    /\ Belief[<<2, 10>>].sensitive
    /\ ~Belief[<<2, 9>>].sensitive

\* sum of the network values of the machines of S
RECURSIVE SumValues(_)
SumValues(S) ==
    IF S = {} THEN 0
    ELSE LET m == CHOOSE x \in S : TRUE
         IN network[m].value + SumValues(S \ {m})

\* C21: a step returns a reward above -10 only when it turns its target from
\* not compromised to compromised, and the sum of reward + cost over the
\* steps since the last reset never exceeds the sum of the values of the
\* goal-set machines.
C21_ValueGainedAtMostOnce ==
    Stepped =>
        /\ (reward > 0 - 10) =>
              /\ ~prev[last.target].compromised
              /\ Belief[last.target].compromised
        /\ gained <= SumValues(GoalSet)

\* every goal machine's value is gained, and a further exploit of one of
\* them brings only the cost
C21_Witness ==
    /\ Stepped
    /\ gained = R_SENSITIVE + R_USER
    /\ gained = SumValues(GoalSet)
    /\ last.target \in GoalSet
    /\ last.kind > 0
    /\ network[last.target].services[last.kind]
    /\ prev[last.target].compromised
    /\ reward = 0 - 10

AllCompromised == \A m \in DOMAIN Belief : Belief[m].compromised

\* every goal machine is compromised: what isGoal() tests
GoalReached == \A m \in GoalSet : Belief[m].compromised

C22_GoalNotInitial ==
    (phase = "ready") =>
        /\ {<<1, 0>>, <<2, 0>>} \subseteq GoalSet
        /\ (last.op = "reset") => ~GoalReached

C22_AgentNeverStuck ==
    (phase = "ready" /\ ~AllCompromised) => AgentActions(Belief) # {}

C22_AgentStepsBounded ==
    (phase = "ready") =>
        /\ agentSteps <= nM * nS
        /\ (last.op = "step" /\ ~WasBlocked /\ GoalReached) => done
        /\ (agentSteps = nM * nS) => AllCompromised

\* the last call was a step that returned done = true
DoneReturned == Stepped /\ done

\* C22: right after reset the goal does not hold, and the goal set holds
\* (1,0) and (2,0); while some machine is not compromised the agent has an
\* exploit of a reachable, not compromised machine at a service not believed
\* absent; it makes at most nM*nS such steps between resets and, unless reset
\* is called again and again, a step returns done = true.
C22_GoalAttainable ==
    /\ [](C22_GoalNotInitial /\ C22_AgentNeverStuck /\ C22_AgentStepsBounded)
    /\ ([]<><<Reset>>_vars) \/ ((last.op = "reset") ~> DoneReturned)

\* the bound is met: every machine runs one service and the agent tried the
\* other one first
C22_Witness ==
    /\ Stepped
    /\ nS = 2
    /\ agentSteps = nM * nS
    /\ AllCompromised
    /\ done

====
